---- MODULE Spec2Model ----
(***************************************************************************)
(* A state-machine model of src/opensouth/scrapers/scrapers.py: the        *)
(* retrying fetch (safe_request), the content store (_save_binary,         *)
(* _save_json), and the four scrapers driven by main().                    *)
(*                                                                         *)
(* Text (URLs, hrefs, element text, digests, file names) is a sequence of  *)
(* one-character strings, so that startswith / endswith / strip / regex    *)
(* search / lower-casing are computed and not assumed.  Fixed URL parts    *)
(* that the code never inspects are written as one multi-character token.  *)
(* The tree under output_dir is two maps from relative path to content:    *)
(* bin (files written by _save_binary) and json (files written by          *)
(* _save_json).  A relative path is <<directory, file name>>.              *)
(***************************************************************************)
EXTENDS Integers, Sequences, FiniteSets, TLC

VARIABLES
    cmd,      \* args.cmd of the current invocation of main()
    pc,       \* position of the running scraper
    runs,     \* number of invocations of main() so far
    bin,      \* output_dir: files written by _save_binary
    json,     \* output_dir: files written by _save_json
    req,      \* the activation of safe_request: url, retry, sleeps, outcome
    page,     \* the parsed page the scraper is working on (soup / r.html)
    links,    \* the selected elements being iterated (links / cards)
    k,        \* 1-based position of the loop over links
    index,    \* the list of records collected so far (index / idx / members)
    exc,      \* the exception that ended the run, if any
    stored,   \* bin paths written by the current run
    written,  \* json paths written by the current run
    args,     \* the scraper's constructor arguments (year, province, constituency)
    href,     \* input of the year extraction of _scrape_budgets
    rec,      \* the record it builds
    downloads \* documents downloaded so far in this behaviour

vars == <<cmd, pc, runs, bin, json, req, page, links, k, index, exc, stored,
          written, args, href, rec, downloads>>

-----------------------------------------------------------------------------
(* Bounds of the model *)

MaxRuns == 2        \* invocations of main() in one behaviour
MaxDownloads == 2   \* documents downloaded in one behaviour
MaxAnchors == 2     \* <a> elements on a document listing page
MaxCards == 2       \* cards on the roster page and, beside the other scrapers, on the members listing
MaxTables == 2      \* <table> elements on the rendered results page
MaxRows == 2        \* <tr> elements in one <tbody>
MaxListing == 3     \* div.views-row cards on the parliament listing
MaxHrefLen == 6     \* characters after the prefix of a budget link

-----------------------------------------------------------------------------
(* Text helpers: Python str operations used by the code *)

Digits == {"0", "1", "2", "3", "4", "5", "6", "7", "8", "9"}

IsDigit(c) == c \in Digits

\* str.startswith(prefix)
StartsWith(s, prefix) ==
    /\ Len(s) >= Len(prefix)
    /\ SubSeq(s, 1, Len(prefix)) = prefix

\* the CSS attribute selector [href$='...']
EndsWith(s, suffix) ==
    /\ Len(s) >= Len(suffix)
    /\ SubSeq(s, Len(s) - Len(suffix) + 1, Len(s)) = suffix

\* sub in s
Contains(s, sub) ==
    \E i \in 1..(Len(s) - Len(sub) + 1) : SubSeq(s, i, i + Len(sub) - 1) = sub

RECURSIVE LStrip(_)
LStrip(s) == IF s # <<>> /\ Head(s) = " " THEN LStrip(Tail(s)) ELSE s

RECURSIVE RStrip(_)
RStrip(s) ==
    IF s # <<>> /\ s[Len(s)] = " " THEN RStrip(SubSeq(s, 1, Len(s) - 1)) ELSE s

\* str.strip() / get_text(strip=True)
Strip(s) == RStrip(LStrip(s))

Http == <<"h", "t", "t", "p">>
Pdf == <<".", "p", "d", "f">>

-----------------------------------------------------------------------------
(* Helper functions of the module *)

HexChars == <<"0", "1", "2", "3", "4", "5", "6", "7",
              "8", "9", "a", "b", "c", "d", "e", "f">>

\* hex encoding of a number, most significant digit first
RECURSIVE Hex(_)
Hex(n) == IF n < 16 THEN <<HexChars[n + 1]>>
          ELSE Hex(n \div 16) \o <<HexChars[(n % 16) + 1]>>

\* The digest space of the model.  hashlib.sha1 has 2^160 digests; the model
\* keeps a deterministic function of the bytes into a small space, so two
\* different payloads may share a digest and nothing below assumes that
\* they do not.
DigestSpace == 4

RECURSIVE ByteSum(_)
ByteSum(data) == IF data = <<>> THEN 0 ELSE Head(data) + ByteSum(Tail(data))

\* sha1(data): the hex digest of the bytes
sha1(data) == Hex(ByteSum(data) % DigestSpace)

UpperCase == <<"A", "B", "C", "D", "E", "F", "G", "H", "I", "J", "K", "L", "M",
               "N", "O", "P", "Q", "R", "S", "T", "U", "V", "W", "X", "Y", "Z">>
LowerCase == <<"a", "b", "c", "d", "e", "f", "g", "h", "i", "j", "k", "l", "m",
               "n", "o", "p", "q", "r", "s", "t", "u", "v", "w", "x", "y", "z">>

\* str.lower() on one character
ToLower(c) ==
    IF \E i \in 1..26 : UpperCase[i] = c
    THEN LowerCase[CHOOSE i \in 1..26 : UpperCase[i] = c]
    ELSE c

\* the character class [\w\-]
IsWordOrDash(c) ==
    \/ \E i \in 1..26 : c = UpperCase[i] \/ c = LowerCase[i]
    \/ IsDigit(c)
    \/ c \in {"_", "-"}

\* re.sub(r"[^\w\-]+", "-", s): every maximal run of other characters
\* becomes one "-"
RECURSIVE SubNonWord(_, _)
SubNonWord(s, inRun) ==
    IF s = <<>> THEN <<>>
    ELSE IF IsWordOrDash(Head(s)) THEN <<Head(s)>> \o SubNonWord(Tail(s), FALSE)
    ELSE IF inRun THEN SubNonWord(Tail(s), TRUE)
    ELSE <<"-">> \o SubNonWord(Tail(s), TRUE)

\* re.sub(r"-+", "-", s)
RECURSIVE SubDashes(_, _)
SubDashes(s, inRun) ==
    IF s = <<>> THEN <<>>
    ELSE IF Head(s) # "-" THEN <<Head(s)>> \o SubDashes(Tail(s), FALSE)
    ELSE IF inRun THEN SubDashes(Tail(s), TRUE)
    ELSE <<"-">> \o SubDashes(Tail(s), TRUE)

\* str.strip("-")
RECURSIVE StripDash(_)
StripDash(s) ==
    IF s # <<>> /\ Head(s) = "-" THEN StripDash(Tail(s))
    ELSE IF s # <<>> /\ s[Len(s)] = "-" THEN StripDash(SubSeq(s, 1, Len(s) - 1))
    ELSE s

slugify(text) ==
    StripDash(SubDashes(SubNonWord([i \in 1..Len(text) |-> ToLower(text[i])],
                                   FALSE), FALSE))

-----------------------------------------------------------------------------
(* The content store: BaseScraper._save_binary and BaseScraper._save_json *)

\* file_path.write_bytes(content): creates or overwrites the file
WriteFile(fs, rel_path, content) ==
    [p \in (DOMAIN fs) \cup {rel_path} |->
        IF p = rel_path THEN content ELSE fs[p]]

_save_binary_skipped(fs, content, rel_path) == fs

_save_binary(fs, content, rel_path) == WriteFile(fs, rel_path, content)

_save_json(fs, data, rel_path) == WriteFile(fs, rel_path, data)

NoFiles == [p \in {} |-> <<>>]

-----------------------------------------------------------------------------
(* URLs and paths built by the scrapers *)

DecChars == <<"0", "1", "2", "3", "4", "5", "6", "7", "8", "9">>

\* str(n) of a non-negative int, as an f-string formats it
RECURSIVE Dec(_)
Dec(n) == IF n < 10 THEN <<DecChars[n + 1]>>
          ELSE Dec(n \div 10) \o <<DecChars[(n % 10) + 1]>>

\* ElectionsScraper.run: url
ElectionsUrl(province, year) ==
    <<"https://www.elections.ma/elections/communales/resultats?province=">>
        \o province \o <<"&annee=">> \o Dec(year)

\* ElectionsScraper.run: the path of the index
ElectionsPath(province, year) ==
    <<".", <<"elections_">> \o Dec(year) \o <<"_">> \o slugify(province)
               \o <<".json">>>>

CommuneBASE == <<"h", "t", "t", "p", "s", ":", "/", "/", "c", "o", "m", "m", "u",
                 "n", "e", "g", "u", "e", "l", "m", "i", "m", ".", "m", "a">>
ROSTER_SLUG == <<"ROSTER_SLUG">>
MINUTES_SLUG == <<"MINUTES_SLUG">>
BUDGETS_SLUG == <<"BUDGETS_SLUG">>

\* CommuneScraper._url
_url(slug) == CommuneBASE \o <<"/", "a", "r", "/">> \o slug

RegionBASE == <<"h", "t", "t", "p", "s", ":", "/", "/", "r", "g", "o", "n", ".",
                "m", "a">>
RegionSessionsUrl == RegionBASE \o <<"/category/SESSIONS">>
RegionBudgetsUrl == RegionBASE \o <<"/category/BUDGETS">>

ParliamentBASE == <<"h", "t", "t", "p", "s", ":", "/", "/", "w", "w", "w", ".",
                    "p", "a", "r", "l", "e", "m", "e", "n", "t", ".", "m", "a">>
MembersUrl == ParliamentBASE \o <<"/", "a", "r", "/", "m", "e", "m", "b", "e", "r", "s">>

RosterPath == <<"commune", <<"roster.json">>>>
MinutesIndexPath == <<"commune", <<"minutes_index.json">>>>
CommuneBudgetsIndexPath == <<"commune", <<"budgets_index.json">>>>
SessionsIndexPath == <<"region", <<"sessions_index.json">>>>
RegionBudgetsIndexPath == <<"region", <<"budgets_index.json">>>>
MembersPath == <<"parliament", <<"members.json">>>>

\* Path(dir) / f"{digest}.pdf"
DocPath(dir, digest) == <<dir, digest \o Pdf>>

\* the resolution of a link of the commune site
CommunePdfUrl(h) == IF StartsWith(h, Http) THEN h ELSE CommuneBASE \o h

Unknown == <<"u", "n", "k", "n", "o", "w", "n">>

\* the rightmost position with four digits in a row
RECURSIVE SearchYear_last(_, _)
SearchYear_last(s, i) ==
    IF i + 3 > Len(s) THEN Unknown
    ELSE LET later == SearchYear_last(s, i + 1)
         IN  IF later # Unknown THEN later
             ELSE IF \A j \in i..(i + 3) : IsDigit(s[j]) THEN SubSeq(s, i, i + 3)
             ELSE Unknown

\* re.search(r"(\d{4})", s): the leftmost position with four digits in a row
RECURSIVE SearchYear(_, _)
SearchYear(s, i) ==
    IF i + 3 > Len(s) THEN Unknown
    ELSE IF \A j \in i..(i + 3) : IsDigit(s[j]) THEN SubSeq(s, i, i + 3)
    ELSE SearchYear(s, i + 1)

\* _scrape_budgets: year
BudgetYear(pdf_url) == SearchYear(pdf_url, 1)

-----------------------------------------------------------------------------
(* State shared by the scrapers *)

NoResp == [attempt |-> 0, body |-> <<>>]
NoExc == [type |-> "none", what |-> "", url |-> <<>>, gets |-> 0, at |-> ""]

ReqIdle == [state |-> "idle", url |-> <<>>, retry |-> 0, sleeps |-> <<>>,
            log |-> <<>>, resp |-> NoResp, err |-> NoExc]

NoArgs == [year |-> 0, province |-> <<>>, constituency |-> <<>>]

\* the state before the first invocation, with an empty output_dir
Start(h) ==
    /\ cmd = "none"
    /\ pc = "idle"
    /\ runs = 0
    /\ bin = NoFiles
    /\ json = NoFiles
    /\ req = ReqIdle
    /\ page = <<>>
    /\ links = <<>>
    /\ k = 1
    /\ index = <<>>
    /\ exc = NoExc
    /\ stored = {}
    /\ written = {}
    /\ args = NoArgs
    /\ href = h
    /\ rec = <<>>
    /\ downloads = 0

Init == Start(<<>>)

BoundedSeq(S, n) == UNION {[1..m -> S] : m \in 0..n}

-----------------------------------------------------------------------------
(* safe_request *)

Attempts == 3

Backoff_from_zero(retry) == 3 * retry

\* time.sleep(3 * (retry + 1))
Backoff(retry) == 3 * (retry + 1)

\* the caller's side of safe_request(url): a fresh activation
Call(url) ==
    req' = [ReqIdle EXCEPT !.state = "running", !.url = url]

\* what the server can answer to the request in flight, by the caller's position
Served(w) ==
    CASE pc = "c_roster_page" -> w.rosters
      [] pc \in {"c_minutes_page", "c_budgets_page",
                 "r_sessions_page", "r_budgets_page"} -> w.listings
      [] pc \in {"c_minutes_pdf", "c_budgets_pdf",
                 "r_sessions_pdf", "r_budgets_pdf"} ->
            \* requests rejects a URL without a scheme on every attempt
            IF StartsWith(req.url, Http) THEN w.payloads ELSE {}
      [] pc = "p_members_page" -> w.members
      [] pc = "p_profile_page" -> w.profiles
      [] OTHER -> {}

\* for retry in range(3): one iteration of the loop
SafeRequestTry(w) ==
    /\ req.state = "running"
    /\ req.retry < Attempts
    /\ \/ \E body \in Served(w) :
            \* sess.get and raise_for_status succeed: return resp
            req' = [req EXCEPT !.state = "returned",
                               !.log = Append(@, "ok"),
                               !.resp = [attempt |-> req.retry + 1, body |-> body]]
       \/ \* except Exception: warn, sleep, next iteration
          req' = [req EXCEPT !.log = Append(@, "err"),
                             !.sleeps = Append(@, Backoff(req.retry)),
                             !.retry = @ + 1]
    /\ UNCHANGED <<cmd, pc, runs, bin, json, page, links, k, index, exc, stored,
                   written, args, href, rec, downloads>>

\* raise RuntimeError(f"Failed to fetch {url} after 3 attempts")
SafeRequestRaise ==
    /\ req.state = "running"
    /\ req.retry >= Attempts
    /\ req' = [req EXCEPT !.state = "raised",
                          !.err = [type |-> "RuntimeError", what |-> "Failed to fetch",
                                   url |-> req.url, gets |-> Len(req.log), at |-> pc]]
    /\ UNCHANGED <<cmd, pc, runs, bin, json, page, links, k, index, exc, stored,
                   written, args, href, rec, downloads>>

\* the positions at which a document download is in flight, the directory the
\* document goes to and the index its record goes to
PdfStates == {"c_minutes_pdf", "c_budgets_pdf", "r_sessions_pdf", "r_budgets_pdf"}

DirAt(at) ==
    CASE at = "c_minutes_pdf" -> "commune/minutes"
      [] at = "c_budgets_pdf" -> "commune/budgets"
      [] at = "r_sessions_pdf" -> "region/sessions"
      [] at = "r_budgets_pdf" -> "region/budgets"

IndexPathAt(at) ==
    CASE at = "c_minutes_pdf" -> <<"commune", <<"minutes_index.json">>>>
      [] at = "c_budgets_pdf" -> <<"commune", <<"budgets_index.json">>>>
      [] at = "r_sessions_pdf" -> <<"region", <<"sessions_index.json">>>>
      [] at = "r_budgets_pdf" -> <<"region", <<"budgets_index.json">>>>

\* Unwind with a flush of the records collected so far
Unwind_flush ==
    /\ req.state = "raised"
    /\ pc \notin {"idle", "done", "failed"}
    /\ pc' = "failed"
    /\ exc' = req.err
    /\ IF pc \in PdfStates
       THEN /\ json' = [p \in (DOMAIN json) \cup {IndexPathAt(pc)} |->
                            IF p = IndexPathAt(pc) THEN index ELSE json[p]]
            /\ written' = written \cup {IndexPathAt(pc)}
       ELSE UNCHANGED <<json, written>>
    /\ UNCHANGED <<cmd, runs, bin, req, page, links, k, index, stored,
                   args, href, rec, downloads>>

\* no caller catches: the error of safe_request ends the run
Unwind ==
    /\ req.state = "raised"
    /\ pc \notin {"idle", "done", "failed"}
    /\ pc' = "failed"
    /\ exc' = req.err
    /\ UNCHANGED <<cmd, runs, bin, json, req, page, links, k, index, stored,
                   written, args, href, rec, downloads>>

-----------------------------------------------------------------------------
(* main: one invocation selects one scraper and runs it to completion *)

Enter(w, c, first, a) ==
    /\ pc \in {"idle", "done", "failed"}
    /\ runs < w.runs
    /\ runs' = runs + 1
    /\ cmd' = c
    /\ pc' = first
    /\ args' = a
    /\ req' = ReqIdle
    /\ page' = <<>>
    /\ links' = <<>>
    /\ k' = 1
    /\ index' = <<>>
    /\ exc' = NoExc
    /\ stored' = {}
    /\ written' = {}
    /\ UNCHANGED <<bin, json, href, rec, downloads>>

MainElections(w) ==
    \E y \in w.years, p \in w.provinces :
        Enter(w, "elections", "e_get", [NoArgs EXCEPT !.year = y, !.province = p])

MainCommune(w) == Enter(w, "commune", "c_roster", NoArgs)

MainRegion(w) == Enter(w, "region", "r_sessions", NoArgs)

MainParliament(w) ==
    \E c \in w.constituencies :
        Enter(w, "parliament", "p_members", [NoArgs EXCEPT !.constituency = c])

-----------------------------------------------------------------------------
(* ElectionsScraper *)

SOURCE_URL == <<"s", "o", "u", "r", "c", "e", "_", "u", "r", "l">>

StripAll(texts) == [i \in 1..Len(texts) |-> Strip(texts[i])]

\* dict(zip(headers, cells)) then item["source_url"] = url: a later duplicate
\* of a key wins
Item(headers, cells, url) ==
    [key \in {headers[i] : i \in 1..Len(headers)} \cup {SOURCE_URL} |->
        IF key = SOURCE_URL THEN url
        ELSE cells[CHOOSE i \in 1..Len(headers) :
                      /\ headers[i] = key
                      /\ \A j \in (i + 1)..Len(headers) : headers[j] # key]]

Ragged_short_only(cells, headers) == Len(cells) < Len(headers)

\* if len(cells) != len(headers): continue
Ragged(cells, headers) == Len(cells) # Len(headers)

\* for row in tbl.find("tbody tr")
RECURSIVE RowLoop(_, _, _)
RowLoop(headers, rows, url) ==
    IF rows = <<>> THEN <<>>
    ELSE LET cells == StripAll(Head(rows))
         IN  IF Ragged(cells, headers) THEN RowLoop(headers, Tail(rows), url)
             ELSE <<Item(headers, cells, url)>> \o RowLoop(headers, Tail(rows), url)

\* for tbl in tables
RECURSIVE TableLoop(_, _)
TableLoop(tables, url) ==
    IF tables = <<>> THEN <<>>
    ELSE RowLoop(StripAll(Head(tables).thead), Head(tables).tbody, url)
            \o TableLoop(Tail(tables), url)

\* r = self.session.get(url); r.html.render(...); tables = r.html.find("table"):
\* one attempt, not through safe_request
ElectionsGet(w) ==
    /\ pc = "e_get"
    /\ \/ \E html \in w.results :
            /\ page' = html
            /\ pc' = "e_extract"
            /\ exc' = exc
       \/ /\ pc' = "failed"
          /\ exc' = [type |-> "RequestException", what |-> "session.get",
                     url |-> ElectionsUrl(args.province, args.year), gets |-> 1,
                     at |-> pc]
          /\ page' = page
    /\ UNCHANGED <<cmd, runs, bin, json, req, links, k, index, stored, written,
                   args, href, rec, downloads>>

NoTables_never(tables) == FALSE

\* if not tables
NoTables(tables) == tables = <<>>

\* the rest of run(): the table check, the loops and the save
ElectionsExtract ==
    /\ pc = "e_extract"
    /\ LET url == ElectionsUrl(args.province, args.year)
           path == ElectionsPath(args.province, args.year)
       IN  \/ /\ NoTables(page)
              /\ pc' = "failed"
              /\ exc' = [type |-> "RuntimeError", what |-> "No table found",
                         url |-> url, gets |-> 1, at |-> pc]
              /\ UNCHANGED <<json, index, written>>
           \/ /\ ~NoTables(page)
              /\ index' = TableLoop(page, url)
              /\ json' = _save_json(json, index', path)
              /\ written' = written \cup {path}
              /\ pc' = "done"
              /\ exc' = exc
    /\ UNCHANGED <<cmd, runs, bin, req, page, links, k, stored, args, href, rec, downloads>>

-----------------------------------------------------------------------------
(* The document loop shared by _scrape_minutes, the two _scrape_budgets and *)
(* _scrape_sessions: fetch the listing, select the links, then per link    *)
(* download, digest, store, append; the index is saved after the loop.     *)

\* soup = BeautifulSoup(safe_request(url).text, ...): the call
GetPage(at, url, next) ==
    /\ pc = at
    /\ Call(url)
    /\ pc' = next
    /\ UNCHANGED <<cmd, runs, bin, json, page, links, k, index, exc, stored,
                   written, args, href, rec, downloads>>

\* links = soup.select(...); idx = []
BeginLoop(at, selected, next) ==
    /\ pc = at
    /\ req.state = "returned"
    /\ links' = selected
    /\ index' = <<>>
    /\ k' = 1
    /\ pc' = next
    /\ req' = ReqIdle
    /\ UNCHANGED <<cmd, runs, bin, json, page, exc, stored, written, args, href, rec, downloads>>

\* pdf_bytes = safe_request(pdf_url).content: the call
FetchDoc(at, pdf_url, next) ==
    /\ pc = at
    /\ k <= Len(links)
    /\ downloads < MaxDownloads
    /\ Call(pdf_url)
    /\ pc' = next
    /\ UNCHANGED <<cmd, runs, bin, json, page, links, k, index, exc, stored,
                   written, args, href, rec, downloads>>

StoredAt_first_byte(dir, pdf_bytes) == DocPath(dir, sha1(SubSeq(pdf_bytes, 1, 1)))

\* rel_path = Path(dir) / f"{digest}.pdf"
StoredAt(dir, pdf_bytes) == DocPath(dir, sha1(pdf_bytes))

\* digest = sha1(pdf_bytes); self._save_binary(pdf_bytes, rel_path);
\* idx.append(record)
StoreDoc(at, dir, record, back) ==
    /\ pc = at
    /\ req.state = "returned"
    /\ LET pdf_bytes == req.resp.body
           rel_path == StoredAt(dir, pdf_bytes)
       IN  /\ bin' = _save_binary(bin, pdf_bytes, rel_path)
           /\ stored' = stored \cup {rel_path}
           /\ index' = Append(index, record)
    /\ k' = k + 1
    /\ pc' = back
    /\ req' = ReqIdle
    /\ downloads' = downloads + 1
    /\ UNCHANGED <<cmd, runs, json, page, links, exc, written, args, href, rec>>

\* self._save_json(idx, path), after the loop
WriteIndex(at, path, next) ==
    /\ pc = at
    /\ k > Len(links)
    /\ json' = _save_json(json, index, path)
    /\ written' = written \cup {path}
    /\ pc' = next
    /\ UNCHANGED <<cmd, runs, bin, req, page, links, k, index, exc, stored,
                   args, href, rec, downloads>>

\* a[href$='.pdf']
IsPdfLink(a) == EndsWith(a.href, Pdf)

\* article a[href$='.pdf']
IsArticlePdfLink(a) == a.in_article /\ EndsWith(a.href, Pdf)

-----------------------------------------------------------------------------
(* CommuneScraper *)

CommuneRosterGet == GetPage("c_roster", _url(ROSTER_SLUG), "c_roster_page")

\* one member of the roster
Member(card, url) ==
    [name |-> Strip(card.h3),
     position |-> IF card.has_position THEN Strip(card.position) ELSE <<>>,
     photo_url |-> card.img_src,
     source_url |-> url]

\* the loop over the cards and the save; card.select_one("h3") is None on a
\* card without <h3>, and .get_text on it raises AttributeError
CommuneRoster ==
    /\ pc = "c_roster_page"
    /\ req.state = "returned"
    /\ LET cards == req.resp.body
           url == _url(ROSTER_SLUG)
       IN  \/ /\ \E i \in 1..Len(cards) : ~cards[i].has_h3
              /\ pc' = "failed"
              /\ exc' = [type |-> "AttributeError", what |-> "h3", url |-> url,
                         gets |-> Len(req.log), at |-> pc]
              /\ UNCHANGED <<json, written>>
           \/ /\ \A i \in 1..Len(cards) : cards[i].has_h3
              /\ json' = _save_json(json,
                                    [i \in 1..Len(cards) |-> Member(cards[i], url)],
                                    RosterPath)
              /\ written' = written \cup {RosterPath}
              /\ pc' = "c_minutes"
              /\ exc' = exc
    /\ req' = ReqIdle
    /\ UNCHANGED <<cmd, runs, bin, page, links, k, index, stored, args, href, rec, downloads>>

CommuneMinutesGet == GetPage("c_minutes", _url(MINUTES_SLUG), "c_minutes_page")

CommuneMinutesSelect ==
    BeginLoop("c_minutes_page", SelectSeq(req.resp.body, IsPdfLink), "c_minutes_loop")

CommuneMinutesFetch ==
    FetchDoc("c_minutes_loop", CommunePdfUrl(links[k].href), "c_minutes_pdf")

MinutesRecord(digest, rel_path) ==
    [title |-> Strip(links[k].text),
     source_url |-> CommunePdfUrl(links[k].href),
     sha1 |-> digest,
     file |-> rel_path]

CommuneMinutesStore ==
    StoreDoc("c_minutes_pdf", "commune/minutes",
             MinutesRecord(sha1(req.resp.body), StoredAt("commune/minutes", req.resp.body)),
             "c_minutes_loop")

CommuneMinutesIndex == WriteIndex("c_minutes_loop", MinutesIndexPath, "c_budgets")

CommuneBudgetsGet == GetPage("c_budgets", _url(BUDGETS_SLUG), "c_budgets_page")

CommuneBudgetsSelect ==
    BeginLoop("c_budgets_page", SelectSeq(req.resp.body, IsPdfLink), "c_budgets_loop")

CommuneBudgetsFetch ==
    FetchDoc("c_budgets_loop", CommunePdfUrl(links[k].href), "c_budgets_pdf")

BudgetRecord_year_if_found(h, digest, rel_path) ==
    IF BudgetYear(CommunePdfUrl(h)) = Unknown
    THEN [source_url |-> CommunePdfUrl(h), sha1 |-> digest, file |-> rel_path]
    ELSE [year |-> BudgetYear(CommunePdfUrl(h)), source_url |-> CommunePdfUrl(h),
          sha1 |-> digest, file |-> rel_path]

\* the record of one budget link: year is taken from pdf_url
BudgetRecord(h, digest, rel_path) ==
    [year |-> BudgetYear(CommunePdfUrl(h)),
     source_url |-> CommunePdfUrl(h),
     sha1 |-> digest,
     file |-> rel_path]

CommuneBudgetRecord(digest, rel_path) == BudgetRecord(links[k].href, digest, rel_path)

CommuneBudgetsStore ==
    StoreDoc("c_budgets_pdf", "commune/budgets",
             CommuneBudgetRecord(sha1(req.resp.body), StoredAt("commune/budgets", req.resp.body)),
             "c_budgets_loop")

CommuneBudgetsIndex == WriteIndex("c_budgets_loop", CommuneBudgetsIndexPath, "done")

-----------------------------------------------------------------------------
(* RegionScraper *)

RegionSessionsGet == GetPage("r_sessions", RegionSessionsUrl, "r_sessions_page")

RegionSessionsSelect ==
    BeginLoop("r_sessions_page", SelectSeq(req.resp.body, IsArticlePdfLink),
              "r_sessions_loop")

RegionSessionsFetch == FetchDoc("r_sessions_loop", links[k].href, "r_sessions_pdf")

SessionRecord(digest, rel_path) ==
    [title |-> Strip(links[k].text),
     source_url |-> links[k].href,
     sha1 |-> digest,
     file |-> rel_path]

RegionSessionsStore ==
    StoreDoc("r_sessions_pdf", "region/sessions",
             SessionRecord(sha1(req.resp.body), StoredAt("region/sessions", req.resp.body)),
             "r_sessions_loop")

RegionSessionsIndex == WriteIndex("r_sessions_loop", SessionsIndexPath, "r_budgets")

RegionBudgetsGet == GetPage("r_budgets", RegionBudgetsUrl, "r_budgets_page")

RegionBudgetsSelect ==
    BeginLoop("r_budgets_page", SelectSeq(req.resp.body, IsArticlePdfLink),
              "r_budgets_loop")

RegionBudgetsFetch == FetchDoc("r_budgets_loop", links[k].href, "r_budgets_pdf")

RegionBudgetRecord(digest, rel_path) ==
    [source_url |-> links[k].href, sha1 |-> digest, file |-> rel_path]

RegionBudgetsStore ==
    StoreDoc("r_budgets_pdf", "region/budgets",
             RegionBudgetRecord(sha1(req.resp.body), StoredAt("region/budgets", req.resp.body)),
             "r_budgets_loop")

RegionBudgetsIndex == WriteIndex("r_budgets_loop", RegionBudgetsIndexPath, "done")

-----------------------------------------------------------------------------
(* ParliamentScraper *)

ParliamentGet == GetPage("p_members", MembersUrl, "p_members_page")

\* cards = soup.select("div.views-row"); idx = []
ParliamentSelect == BeginLoop("p_members_page", req.resp.body, "p_loop")

Matches_prefix(c) == StartsWith(c.text, args.constituency)

\* if self.constituency not in c.get_text(): continue
Matches(c) == Contains(c.text, args.constituency)

ParliamentSkip ==
    /\ pc = "p_loop"
    /\ k <= Len(links)
    /\ ~Matches(links[k])
    /\ k' = k + 1
    /\ UNCHANGED <<cmd, pc, runs, bin, json, req, page, links, index, exc, stored,
                   written, args, href, rec, downloads>>

ProfileUrl(c) == ParliamentBASE \o c.a_href

\* link = c.select_one("a"); profile_url = ...; safe_request(profile_url, ...).
\* On a card without <a>, link is None and link['href'] raises TypeError.
ParliamentProfile ==
    /\ pc = "p_loop"
    /\ k <= Len(links)
    /\ Matches(links[k])
    /\ \/ /\ links[k].has_a
          /\ Call(ProfileUrl(links[k]))
          /\ pc' = "p_profile_page"
          /\ exc' = exc
       \/ /\ ~links[k].has_a
          /\ pc' = "failed"
          /\ exc' = [type |-> "TypeError", what |-> "link['href']", url |-> MembersUrl,
                     gets |-> 0, at |-> pc]
          /\ req' = req
    /\ UNCHANGED <<cmd, runs, bin, json, page, links, k, index, stored, written,
                   args, href, rec, downloads>>

\* party and idx.append({...})
ParliamentAppend ==
    /\ pc = "p_profile_page"
    /\ req.state = "returned"
    /\ LET profile == req.resp.body[1]
           c == links[k]
       IN  index' = Append(index,
                [name |-> Strip(c.a_text),
                 party |-> IF profile.has_party THEN Strip(profile.party) ELSE <<>>,
                 constituency |-> args.constituency,
                 profile_url |-> ProfileUrl(c)])
    /\ k' = k + 1
    /\ pc' = "p_loop"
    /\ req' = ReqIdle
    /\ UNCHANGED <<cmd, runs, bin, json, page, links, exc, stored, written, args,
                   href, rec, downloads>>

ParliamentIndex == WriteIndex("p_loop", MembersPath, "done")

-----------------------------------------------------------------------------
(* What the sites can serve, and the command lines, within the bounds *)

Guelmim == <<"G", "u", "e", "l", "m", "i", "m">>
SidiIfni == <<"S", "i", "d", "i", " ", "I", "f", "n", "i">>
Constituency == <<"k", "g">>

\* <a> elements of a listing page
AnchorKinds ==
    {[href |-> <<"/", "2", "0", "1", "9">> \o Pdf, text |-> <<" ", "T">>,
      in_article |-> TRUE],
     [href |-> Http \o <<":", "x">> \o Pdf, text |-> <<"U">>, in_article |-> TRUE],
     [href |-> Http \o <<":", "x">> \o Pdf, text |-> <<"U">>, in_article |-> FALSE],
     [href |-> <<"/", "h", "t", "m", "l">>, text |-> <<"W">>, in_article |-> TRUE]}

\* payloads of the documents; the last two share a digest
Payloads == {<<1>>, <<2>>, <<1, 1>>}

\* member cards of the roster page
RosterCards ==
    {[has_h3 |-> TRUE, h3 |-> <<"A", " ">>, has_position |-> TRUE,
      position |-> <<"P">>, img_src |-> <<"i">>],
     [has_h3 |-> TRUE, h3 |-> <<"B">>, has_position |-> FALSE,
      position |-> <<>>, img_src |-> <<"j">>],
     [has_h3 |-> FALSE, h3 |-> <<>>, has_position |-> FALSE,
      position |-> <<>>, img_src |-> <<"i">>]}

\* div.views-row cards of the members listing
MemberCards ==
    {[text |-> <<"A", "k", "g">>, has_a |-> TRUE, a_href |-> <<"/", "A">>,
      a_text |-> <<"A">>],
     [text |-> <<"B", "g", "k">>, has_a |-> TRUE, a_href |-> <<"/", "B">>,
      a_text |-> <<"B">>],
     [text |-> <<"k", "g", "C">>, has_a |-> FALSE, a_href |-> <<>>,
      a_text |-> <<>>]}

Profiles ==
    {<<[has_party |-> TRUE, party |-> <<"P", " ">>]>>,
     <<[has_party |-> FALSE, party |-> <<>>]>>}

\* header rows and body rows of a results table
HeaderRows == {<<<<"a">>>>, <<<<"b">>, <<" ", "b">>>>}
BodyRows == {<<<<"x">>>>, <<<<"x">>, <<"y", " ">>>>, <<>>}
Tables == [thead : HeaderRows, tbody : BoundedSeq(BodyRows, MaxRows)]

\* the tables of the results pages tried beside the other scrapers
FewTables ==
    {[thead |-> <<<<"a">>>>, tbody |-> <<<<<<"x">>>>>>],
     [thead |-> <<<<"a">>, <<" ", "b">>>>,
      tbody |-> <<<<<<"x">>>>, <<<<"x">>, <<"y", " ">>>>>>]}

World ==
    [runs |-> MaxRuns,
     years |-> {2021},
     provinces |-> {Guelmim},
     constituencies |-> {Constituency},
     rosters |-> BoundedSeq(RosterCards, MaxCards),
     listings |-> BoundedSeq(AnchorKinds, MaxAnchors),
     payloads |-> Payloads,
     members |-> BoundedSeq(MemberCards, MaxCards),
     profiles |-> Profiles,
     results |-> BoundedSeq(FewTables, 2)]

ElectionsWorld ==
    [World EXCEPT !.runs = 1,
                  !.provinces = {Guelmim, SidiIfni},
                  !.results = BoundedSeq(Tables, MaxTables)]

ParliamentWorld ==
    [World EXCEPT !.runs = 1,
                  !.members = BoundedSeq(MemberCards, MaxListing)]

-----------------------------------------------------------------------------
(* Specifications *)

Next ==
    \/ MainElections(World)
    \/ MainCommune(World)
    \/ MainRegion(World)
    \/ MainParliament(World)
    \/ SafeRequestTry(World)
    \/ SafeRequestRaise
    \/ Unwind
    \/ ElectionsGet(World)
    \/ ElectionsExtract
    \/ CommuneRosterGet
    \/ CommuneRoster
    \/ CommuneMinutesGet
    \/ CommuneMinutesSelect
    \/ CommuneMinutesFetch
    \/ CommuneMinutesStore
    \/ CommuneMinutesIndex
    \/ CommuneBudgetsGet
    \/ CommuneBudgetsSelect
    \/ CommuneBudgetsFetch
    \/ CommuneBudgetsStore
    \/ CommuneBudgetsIndex
    \/ RegionSessionsGet
    \/ RegionSessionsSelect
    \/ RegionSessionsFetch
    \/ RegionSessionsStore
    \/ RegionSessionsIndex
    \/ RegionBudgetsGet
    \/ RegionBudgetsSelect
    \/ RegionBudgetsFetch
    \/ RegionBudgetsStore
    \/ RegionBudgetsIndex
    \/ ParliamentGet
    \/ ParliamentSelect
    \/ ParliamentSkip
    \/ ParliamentProfile
    \/ ParliamentAppend
    \/ ParliamentIndex

Spec == Init /\ [][Next]_vars

\* the elections command alone, over every page within the bounds
NextElections ==
    \/ MainElections(ElectionsWorld)
    \/ ElectionsGet(ElectionsWorld)
    \/ ElectionsExtract

SpecElections == Init /\ [][NextElections]_vars

\* the parliament command alone, over every listing within the bounds
NextParliament ==
    \/ MainParliament(ParliamentWorld)
    \/ SafeRequestTry(ParliamentWorld)
    \/ SafeRequestRaise
    \/ Unwind
    \/ ParliamentGet
    \/ ParliamentSelect
    \/ ParliamentSkip
    \/ ParliamentProfile
    \/ ParliamentAppend
    \/ ParliamentIndex

SpecParliament == Init /\ [][NextParliament]_vars

\* the links a budgets page can carry: relative or absolute, then letters,
\* digits and dashes
HrefChars == {"a", "-", "1", "2"}
ExampleHref ==
    <<"/", "a", "r", "/", "b", "u", "d", "g", "e", "t", "-", "2", "0", "1", "9",
      "-", "f", "i", "n", "a", "l">> \o Pdf
Hrefs ==
    {prefix \o body : prefix \in {<<"/">>, Http \o <<":">>},
                      body \in BoundedSeq(HrefChars, MaxHrefLen)}
        \cup {ExampleHref}

InitYear == \E h \in Hrefs : Start(h)

\* the record _scrape_budgets builds for the link href
ExtractYear ==
    /\ rec = <<>>
    /\ \E b \in Payloads :
          rec' = <<BudgetRecord(href, sha1(b), StoredAt("commune/budgets", b))>>
    /\ UNCHANGED <<cmd, pc, runs, bin, json, req, page, links, k, index, exc,
                   stored, written, args, href, downloads>>

SpecYear == InitYear /\ [][ExtractYear]_vars

-----------------------------------------------------------------------------
(* Properties *)

DocIndexPaths ==
    {MinutesIndexPath, CommuneBudgetsIndexPath, SessionsIndexPath,
     RegionBudgetsIndexPath}

Ended == pc \in {"done", "failed"}

\* C1: safe_request tries attempts 1, 2, ... and stops at the first success or
\* after attempt 3: every attempt before the last one logged has failed, no
\* attempt follows a success, there are never more than 3; a return at attempt n
\* hands back the response of attempt n after exactly the waits 3*1 .. 3*(n-1);
\* the error is raised after exactly 3 failed attempts and names the URL.
C1_RetryContract ==
    LET n == Len(req.log)
    IN  /\ n <= 3
        /\ \A i \in 1..(n - 1) : req.log[i] = "err"
        /\ (n > 0 /\ req.log[n] = "ok") <=> req.state = "returned"
        /\ req.state = "returned" =>
              /\ req.resp.attempt = n
              /\ req.sleeps = [i \in 1..(n - 1) |-> 3 * i]
        /\ req.state = "raised" =>
              /\ req.log = <<"err", "err", "err">>
              /\ req.err.type = "RuntimeError"
              /\ req.err.url = req.url

\* C1 witness: fail, fail, succeed returns the third response after waits 3, 6
C1_FailFailSucceed ==
    /\ req.state = "returned"
    /\ req.log = <<"err", "err", "ok">>
    /\ req.sleeps = <<3, 6>>
    /\ req.resp.attempt = 3

FailedDownload ==
    /\ pc = "failed"
    /\ cmd \in {"commune", "region"}
    /\ exc.what = "Failed to fetch"
    /\ exc.at \in PdfStates

\* the indexes of the sub-extraction that was running at `at` and of those after it
NotYetWritten(at) ==
    CASE at = "c_minutes_pdf" -> {MinutesIndexPath, CommuneBudgetsIndexPath}
      [] at = "c_budgets_pdf" -> {CommuneBudgetsIndexPath}
      [] at = "r_sessions_pdf" -> {SessionsIndexPath, RegionBudgetsIndexPath}
      [] at = "r_budgets_pdf" -> {RegionBudgetsIndexPath}

\* C2 as stated: after a terminal download failure in a Commune or Region run
\* the binaries stored by the run are on disk and no index written by the run
\* names a binary stored by the run.
C2_NoIndexOfTheRun ==
    FailedDownload =>
        /\ \A p \in stored : p \in DOMAIN bin
        /\ \A p \in written \cap DocIndexPaths :
              \A i \in 1..Len(json[p]) : json[p][i].file \notin stored

\* C2 amended: after a terminal download failure in a Commune or Region run
\* the run makes no further fetch or write, the binaries it stored are on
\* disk, the index of the sub-extraction that failed and of the later ones is
\* not written by the run, and no index the run wrote names a binary of the
\* failed sub-extraction; the indexes of the sub-extractions completed before
\* name binaries the run stored.
C2_NoIndexOfTheFailedPart ==
    /\ [](FailedDownload =>
            /\ \A p \in stored : p \in DOMAIN bin
            /\ written \cap NotYetWritten(exc.at) = {}
            /\ \A p \in written \cap DocIndexPaths :
                  \A i \in 1..Len(json[p]) :
                      /\ json[p][i].file \in stored
                      /\ json[p][i].file[1] # DirAt(exc.at))
    /\ [][pc = "failed" =>
            \/ runs' = runs + 1
            \/ UNCHANGED <<bin, json, req, pc>>]_vars

\* C2 witness: the second download of a sub-extraction fails after the first
\* was stored
C2_FailedAfterAStore ==
    /\ FailedDownload
    /\ \E p \in stored : p[1] = DirAt(exc.at)

\* the rows of the page that the extractor keeps, each with its table's header
\* row, in table order then row order
KeptRows(tbl) ==
    LET Fits(row) == Len(row) = Len(tbl.thead)
    IN  SelectSeq(tbl.tbody, Fits)

RECURSIVE KeptOf(_)
KeptOf(tables) ==
    IF tables = <<>> THEN <<>>
    ELSE LET kept == KeptRows(Head(tables))
         IN  [i \in 1..Len(kept) |-> [thead |-> Head(tables).thead, row |-> kept[i]]]
                \o KeptOf(Tail(tables))

WithoutRagged(tables) ==
    [t \in 1..Len(tables) |->
        [thead |-> tables[t].thead, tbody |-> KeptRows(tables[t])]]

HeaderKeys(thead) == {Strip(thead[h]) : h \in 1..Len(thead)} \cup {SOURCE_URL}

ElectionsDone == cmd = "elections" /\ pc = "done"

SameKeys(records) ==
    \A i, j \in 1..Len(records) : DOMAIN records[i] = DOMAIN records[j]

C4_OneRecordPerFittingRow ==
    ElectionsDone =>
        LET url == ElectionsUrl(args.province, args.year)
            ix == json[ElectionsPath(args.province, args.year)]
            rows == KeptOf(page)
        IN  /\ Len(ix) = Len(rows)
            /\ \A i \in 1..Len(ix) :
                  LET th == rows[i].thead
                  IN  /\ SOURCE_URL \in DOMAIN ix[i]
                      /\ ix[i][SOURCE_URL] = url
                      /\ \A h \in 1..Len(th) :
                            /\ Strip(th[h]) \in DOMAIN ix[i]
                            /\ (/\ Strip(th[h]) # SOURCE_URL
                                /\ \A g \in (h + 1)..Len(th) : Strip(th[g]) # Strip(th[h]))
                               => ix[i][Strip(th[h])] = Strip(rows[i].row[h])
            /\ ix = TableLoop(WithoutRagged(page), url)

\* C4 witness: a table whose first row is dropped and whose second row is kept
C4_DroppedThenKept ==
    /\ ElectionsDone
    /\ Len(page[1].tbody) = 2
    /\ Len(page[1].tbody[1]) # Len(page[1].thead)
    /\ Len(page[1].tbody[2]) = Len(page[1].thead)
    /\ Len(json[ElectionsPath(args.province, args.year)]) >= 1

ContainsConstituency(c) ==
    \E i \in 1..Len(c.text) : \E j \in i..Len(c.text) :
        SubSeq(c.text, i, j) = args.constituency

MatchingCards == SelectSeq(links, ContainsConstituency)

MembersMatch ==
    /\ pc = "done"
    /\ MembersPath \in written
    /\ Len(json[MembersPath]) = Len(MatchingCards)
    /\ \A i \in 1..Len(MatchingCards) :
          /\ json[MembersPath][i].profile_url = ParliamentBASE \o MatchingCards[i].a_href
          /\ json[MembersPath][i].name = Strip(MatchingCards[i].a_text)
          /\ json[MembersPath][i].constituency = args.constituency

ParliamentEnded == cmd = "parliament" /\ Ended /\ exc.what # "Failed to fetch"

C7_NoTableNoIndex ==
    [][(pc = "e_extract" /\ page = <<>>) =>
          /\ pc' = "failed"
          /\ exc'.what = "No table found"
          /\ json' = json
          /\ bin' = bin]_vars

\* C7 witness: the run failed on a page without a table and the index of an
\* earlier run is still there
C7_FailedOverAnOldIndex ==
    /\ cmd = "elections"
    /\ pc = "failed"
    /\ exc.what = "No table found"
    /\ written = {}
    /\ ElectionsPath(args.province, args.year) \in DOMAIN json
    /\ json[ElectionsPath(args.province, args.year)] # <<>>

FourDigitsAt(s, i) == i + 3 <= Len(s) /\ \A j \in i..(i + 3) : s[j] \in Digits

\* C8: the year of a budget record is the leftmost four consecutive digits of
\* the link, or "unknown" when the link has no four consecutive digits.
C8_YearOfLink ==
    rec # <<>> =>
        \/ \E i \in 1..Len(href) :
              /\ FourDigitsAt(href, i)
              /\ \A j \in 1..(i - 1) : ~FourDigitsAt(href, j)
              /\ rec[1].year = SubSeq(href, i, i + 3)
        \/ /\ \A i \in 1..Len(href) : ~FourDigitsAt(href, i)
           /\ rec[1].year = <<"u", "n", "k", "n", "o", "w", "n">>

\* C8 witness: the link /ar/budget-2019-final.pdf gives the year 2019
C8_Budget2019 ==
    /\ href = ExampleHref
    /\ rec # <<>>
    /\ rec[1].year = <<"2", "0", "1", "9">>

\* C9: a run that ends on a failed fetch has made 3 attempts at that URL.
C9_EveryFetchRetried ==
    (pc = "failed" /\ exc.what \in {"Failed to fetch", "session.get"})
        => exc.gets = 3

\* the URL a link is downloaded from, and the index written by the last step
Resolved(a) == IF cmd = "commune" /\ a.href[1] = "/" THEN CommuneBASE \o a.href ELSE a.href

JustWritten ==
    CASE pc = "c_budgets" -> {MinutesIndexPath}
      [] pc = "r_budgets" -> {SessionsIndexPath}
      [] pc = "done" /\ cmd = "commune" -> {CommuneBudgetsIndexPath}
      [] pc = "done" /\ cmd = "region" -> {RegionBudgetsIndexPath}
      [] OTHER -> {}

\* C10: every record of every document index on disk names a file that exists
\* and whose content hashes to the record's sha1, and so does every record
\* collected in memory; an index is written with one record per link, in link
\* order.
C10_IndexNamesStoredFiles ==
    /\ \A p \in DocIndexPaths \cap DOMAIN json :
          \A i \in 1..Len(json[p]) :
              /\ json[p][i].file \in DOMAIN bin
              /\ sha1(bin[json[p][i].file]) = json[p][i].sha1
    /\ cmd \in {"commune", "region"} =>
          \A i \in 1..Len(index) :
              /\ index[i].file \in DOMAIN bin
              /\ sha1(bin[index[i].file]) = index[i].sha1
    /\ \A p \in JustWritten :
          /\ p \in DOMAIN json
          /\ Len(json[p]) = Len(links)
          /\ \A i \in 1..Len(links) : json[p][i].source_url = Resolved(links[i])

\* C10 witness: after an aborted second run the index of the first run still
\* names two stored files
C10_OldIndexAfterAbort ==
    /\ runs = 2
    /\ pc = "failed"
    /\ written = {}
    /\ \E p \in DocIndexPaths \cap DOMAIN json : Len(json[p]) = 2

=============================================================================
